---------------------------- MODULE Spec2Model ----------------------------
(***************************************************************************)
(* Fetch orchestration of the NDK class (fetchEvent / fetchEvents) on top  *)
(* of one NDKSubscription fed by several relays.                           *)
(*                                                                         *)
(* The NDK class is modelled from its source.  NDKSubscription, NDKEvent   *)
(* (isReplaceable, deduplicationKey) and dedupEvent are imported by it;    *)
(* they follow sections 3, 4.4 and 4.5 of the specification and are marked *)
(* as such below.  Signature verification and muting are left out: every   *)
(* event that arrives is valid and not muted.                              *)
(***************************************************************************)
EXTENDS Integers, FiniteSets, Sequences, TLC

\* ------------------------------------------------------------------ bounds
NumRelays == 2          \* relays known to the pool
MaxId == 2              \* event identities 1..MaxId
MaxTime == 2            \* creation timestamps 1..MaxTime
MaxDeliveries == 3      \* raw relay deliveries in one run

Relays == 1..NumRelays
Ids == 1..MaxId
Times == 1..MaxTime

\* ------------------------------------------------------------------ events
\* The filter of the fetch names one author, as `authors: [user.pubkey]`, and
\* three kinds: an ordinary one (1, short text note) and two replaceable ones
\* (10000, mute list; 10006, blocked relays).
Author == 1
Pubkeys == {Author}
Kinds == {1, 10000, 10006}

Event == [id : Ids, kind : Kinds, pubkey : Pubkeys, created_at : Times]

\* JavaScript null, typed like an event so that it can be compared with one.
None == [id |-> 0, kind |-> 0, pubkey |-> 0, created_at |-> 0]

\* NDKEvent.isReplaceable (specification, section 3 "replaceable kinds").
isReplaceable(e) == e.kind = 0 \/ e.kind = 3 \/ (e.kind >= 10000 /\ e.kind < 20000)

\* NDKEvent.deduplicationKey (specification, section 3 "Deduplication key"):
\* (kind, author) for replaceable kinds, the identity itself otherwise.
deduplicationKey(e) ==
    IF isReplaceable(e) THEN <<"r", e.kind, e.pubkey>> ELSE <<"id", e.id, 0>>

\* ----------------------------------------------------------------- promise
\* The value a fetch promise carries: one event (or null) for fetchEvent,
\* a set of events for fetchEvents.
EventResult(e) == [ev |-> e, evs |-> {}]
SetResult(S) == [ev |-> None, evs |-> S]
NoResult == [ev |-> None, evs |-> {}]

NoPromise == [state |-> "none", value |-> NoResult]
PendingPromise == [state |-> "pending", value |-> NoResult]

VARIABLES
    op,            \* the fetch operation in progress: "none", "fetchEvent", "fetchEvents"
    sub,           \* the NDKSubscription created by the operation
    subManager,    \* ids of the subscriptions registered with ndk.subManager
    fetchedEvent,  \* fetchEvent: best replaceable candidate held so far
    t,             \* fetchEvent: progress-polling interval
    t2,            \* fetchEvent: 10 s timeout
    promise,       \* the promise handed to the caller
    events,        \* fetchEvents: Map dedup key -> event
    arrived,       \* history: events that reached the subscription from a relay
    delivered,     \* history: events emitted through "event"
    dups,          \* history: events emitted through "event:dup"
    firstNonRepl,  \* history: first non-replaceable event emitted through "event"
    nDeliveries,   \* history: number of raw relay deliveries
    opts,          \* the NDKConstructorParams the engine was built with
    ndk,           \* fields of the NDK instance set by the constructor
    poolTemp,      \* relays handed to pool.useTemporaryRelay
    trackCalls,    \* number of outboxTracker.trackUsers calls
    deferred,      \* subscribe: the setTimeout(() => subscription.start(), 0)
    call,          \* history: arguments and outcome of the API call made
    log,           \* history: steps of the API call, in program order
    authLog,       \* history: the "relay:auth" challenges raised, in order
    asserted,      \* history: the assertSigner calls and the outcome of the last
    now,           \* the clock, in units of the connect timeouts
    conn,          \* the ndk.connect(timeoutMs) call in progress
    activeUser,    \* ndk._activeUser: the pubkey of the active user, or NoUser
    mutedIds,      \* ndk.mutedIds: the pubkeys and event ids muted
    connected,     \* per pool: its relays that are connected
    onceConnect,   \* per pool: the users of the once("connect") listeners set
    userRuns,      \* history: the runs of the user functions, in order
    connectedRelaysLength,  \* the value of pool.connectedRelays.length
    tasks,         \* the user functions started and still awaiting their fetch
    lookups,       \* the signer.user() lookups pending, in the order started
    signerUser,    \* the user of the signer configured, or NoUser
    effects,       \* history: what the user functions did when they returned
    proofs,        \* cashu wallet: per mint, the proofs held (by amount)
    pay,           \* the payLn call in progress and its promise
    attempts       \* history: the executePayment calls of payLn, in order

fetchVars == <<op, sub, subManager, fetchedEvent, t, t2, promise, events>>

history == <<arrived, delivered, dups, firstNonRepl, nDeliveries>>

engineVars == <<opts, ndk, poolTemp, trackCalls, deferred, call, log>>

configVars == <<authLog, asserted>>

connectVars == <<now, conn>>

userVars == <<activeUser, mutedIds, connected, onceConnect, userRuns,
              connectedRelaysLength, tasks, lookups, signerUser, effects>>

payVars == <<proofs, pay, attempts>>

sessionVars == <<configVars, connectVars, userVars, payVars>>

vars == <<op, sub, subManager, fetchedEvent, t, t2, promise, events,
          arrived, delivered, dups, firstNonRepl, nDeliveries,
          opts, ndk, poolTemp, trackCalls, deferred, call, log,
          authLog, asserted, now, conn,
          activeUser, mutedIds, connected, onceConnect, userRuns,
          connectedRelaysLength, tasks, lookups, signerUser, effects,
          proofs, pay, attempts>>

\* ------------------------------------------------------------ subscription
\* NDKSubscription as section 4.4 of the specification describes it:
\* pending -> running -> eosed -> stopped, a dedup ledger keyed by dedup key,
\* per-relay end-of-stored-events flags and one merged end signal.
EmptyMap == [k \in {} |-> None]

MapHas(m, k) == k \in DOMAIN m

MapSet(m, k, v) == [x \in (DOMAIN m) \cup {k} |-> IF x = k THEN v ELSE m[x]]

MapValues(m) == {m[k] : k \in DOMAIN m}

NewSubscription(relaySet, closeOnEose) ==
    [state |-> "pending", relaySet |-> relaySet, eosed |-> {},
     eoseEmitted |-> FALSE, ledger |-> EmptyMap, closeOnEose |-> closeOnEose]

NoSubscription == NewSubscription({}, FALSE)

\* start(): pending -> running, a no-op in every other state.
start(s) == IF s.state = "pending" THEN [s EXCEPT !.state = "running"] ELSE s

\* stop(): terminal and idempotent; the relays' streams are unregistered.
stop(s) == [s EXCEPT !.state = "stopped"]

\* A subscription receives relay messages only while it is registered with
\* the relays, that is after start() and before stop().
Listening(s) == s.state \in {"running", "eosed"}

\* The signal an arriving event is emitted through (4.4 b-d): "event" for an
\* unseen dedup key and for a strictly newer copy of a replaceable event,
\* "event:dup" for everything else.
Classify(s, e) ==
    LET k == deduplicationKey(e) IN
    IF ~MapHas(s.ledger, k) THEN "event"
    ELSE IF isReplaceable(e) /\ s.ledger[k].created_at < e.created_at THEN "event"
    ELSE "event:dup"

\* The subscription after an event arrived: the ledger keeps the canonical
\* event of each dedup key.
eventReceived(s, e) ==
    IF Classify(s, e) = "event"
    THEN [s EXCEPT !.ledger = MapSet(s.ledger, deduplicationKey(e), e)]
    ELSE s

\* The subscription after relay r signalled end-of-stored-events.
MarkEose(s, r) == [s EXCEPT !.eosed = s.eosed \cup {r}]

\* The merged end signal fires when the last relay of the set is marked, and
\* only once.
MergedEoseFires(s, r) ==
    /\ ~s.eoseEmitted
    /\ s.relaySet \subseteq (s.eosed \cup {r})

\* After the merged end signal: eosed, and stopped at once under closeOnEose.
AfterMergedEose(s) ==
    LET s1 == [s EXCEPT !.state = "eosed", !.eoseEmitted = TRUE] IN
    IF s1.closeOnEose THEN stop(s1) ELSE s1

\* dedupEvent(existing, event): the copy to keep of two events sharing a dedup
\* key (4.5: an entry is replaced by a newer copy or by a same-key duplicate
\* carrying additional information, never by an older copy).  The result is
\* the set of outcomes the description allows: the newer copy, and for equal
\* timestamps either copy.
dedupEvent(existing, event) ==
    IF existing.created_at > event.created_at THEN {existing}
    ELSE IF existing.created_at < event.created_at THEN {event}
    ELSE {existing, event}

\* ---------------------------------------------------------------- NDK class
\* A promise whose later resolve() calls overwrite the settled value.
resolve_Overwrite(p, v) == [state |-> "resolved", value |-> v]

\* resolve() of the promise built by `new Promise((resolve) => ...)`: only the
\* first call settles it.
resolve(p, v) ==
    IF p.state = "pending" THEN [state |-> "resolved", value |-> v] ELSE p

\* clearInterval / clearTimeout: a timer that is still set is cancelled.
clearTimer(x) == IF x = "set" THEN "cleared" ELSE x

\* The variables the callbacks of fetchEvent close over.
Closure == [s |-> sub, fetchedEvent |-> fetchedEvent, t |-> t, t2 |-> t2,
            promise |-> promise]

\* The handler resolving with the candidate it holds instead of the event.
FetchEventOnEvent_PreferCandidate(c, event) ==
    IF ~isReplaceable(event)
    THEN [c EXCEPT !.t = clearTimer(c.t),
                   !.t2 = clearTimer(c.t2),
                   !.promise = resolve(c.promise,
                       EventResult(IF c.fetchedEvent = None THEN event
                                   ELSE c.fetchedEvent))]
    ELSE IF c.fetchedEvent = None \/ c.fetchedEvent.created_at < event.created_at
         THEN [c EXCEPT !.fetchedEvent = event]
         ELSE c

\* The handler keeping the last replaceable event instead of the newest.
FetchEventOnEvent_KeepLast(c, event) ==
    IF ~isReplaceable(event)
    THEN [c EXCEPT !.t = clearTimer(c.t),
                   !.t2 = clearTimer(c.t2),
                   !.promise = resolve(c.promise, EventResult(event))]
    ELSE [c EXCEPT !.fetchedEvent = event]

\* fetchEvent: s.on("event", ...)
FetchEventOnEvent(c, event) ==
    IF ~isReplaceable(event)
    THEN [c EXCEPT !.t = clearTimer(c.t),
                   !.t2 = clearTimer(c.t2),
                   !.promise = resolve(c.promise, EventResult(event))]
    ELSE IF c.fetchedEvent = None \/ c.fetchedEvent.created_at < event.created_at
         THEN [c EXCEPT !.fetchedEvent = event]
         ELSE c

\* fetchEvent: s.on("eose", ...)
FetchEventOnEose(c) ==
    [c EXCEPT !.t = clearTimer(c.t),
              !.t2 = clearTimer(c.t2),
              !.promise = resolve(c.promise, EventResult(c.fetchedEvent))]

\* The timeout callback without its s.stop().
FetchEventOnTimeout_NoStop(c) ==
    [c EXCEPT !.t = clearTimer(c.t),
              !.promise = resolve(c.promise, EventResult(c.fetchedEvent))]

\* The timeout callback without its resolve().
FetchEventOnTimeout_NoResolve(c) ==
    [c EXCEPT !.t = clearTimer(c.t),
              !.s = stop(c.s)]

\* fetchEvent: the callback of the 10 s timeout t2
FetchEventOnTimeout(c) ==
    [c EXCEPT !.t = clearTimer(c.t),
              !.s = stop(c.s),
              !.promise = resolve(c.promise, EventResult(c.fetchedEvent))]

\* onEvent keyed by event identity instead of dedup key.
onEvent_KeyById(m, event, d) == MapSet(m, <<"id", event.id, 0>>, event)

\* onEvent storing the arriving event without consulting dedupEvent.
onEvent_NoDedup(m, event, d) == MapSet(m, deduplicationKey(event), event)

\* fetchEvents: onEvent, registered for "event" and "event:dup"; d is the
\* result of dedupEvent when the key already has an entry.
onEvent(m, event, d) ==
    LET dedupKey == deduplicationKey(event) IN
    MapSet(m, dedupKey, IF MapHas(m, dedupKey) THEN d ELSE event)

\* fetchEvents: relaySetSubscription.on("eose", ...)
FetchEventsOnEose(p, m) == resolve(p, SetResult(MapValues(m)))

\* subscribe(filters, opts, relaySet, autoStart = false): the subscription is
\* built and registered with the manager; it is not started.
SubId == 1

subscribe(relaySet, closeOnEose) == NewSubscription(relaySet, closeOnEose)

\* The manager's registry once subscription s has taken its new state: stop()
\* releases the subscription from the manager.
Registry(reg, s) == IF s.state = "stopped" THEN reg \ {SubId} ELSE reg

\* -------------------------------------------------------------- constructor
\* validationRatio in tenths: 0.0, 0.5 and 1.0.
RatioValues == {0, 5, 10}

\* The default of validationRatio, 1.0, in tenths.
DefaultRatio == 10

\* An optional number: a value that was given, or undefined.
RatioOpts ==
    {[given |-> FALSE, value |-> 0]} \cup {[given |-> TRUE, value |-> v] : v \in RatioValues}

\* No signer, a signer without a relays() method, a signer with one.
Signers == {"none", "plain", "relays"}

\* The users of the model, by pubkey, and the absent user.
Users == {1, 2}

NoUser == 0

\* NDKConstructorParams.  The blacklist is the part of blacklistRelayUrls (or
\* of DEFAULT_BLACKLISTED_RELAYS) that lies among the relays of the model.
\* autoConnectUserRelays and autoFetchUserMutelist stand for the value after
\* "?? true".
Opts ==
    [explicitRelayUrls : SUBSET Relays,
     blacklistRelayUrls : SUBSET Relays,
     enableOutboxModel : BOOLEAN,
     relayAuthDefaultPolicy : BOOLEAN,
     signer : Signers,
     autoConnectUserRelays : BOOLEAN,
     autoFetchUserMutelist : BOOLEAN,
     mutedIds : SUBSET Users,
     validationRatio : RatioOpts]

\* new NDK(): no explicit relay, none of the model's relays blacklisted.
DefaultOpts ==
    [explicitRelayUrls |-> {},
     blacklistRelayUrls |-> {},
     enableOutboxModel |-> FALSE,
     relayAuthDefaultPolicy |-> FALSE,
     signer |-> "none",
     autoConnectUserRelays |-> TRUE,
     autoFetchUserMutelist |-> TRUE,
     mutedIds |-> {},
     validationRatio |-> [given |-> FALSE, value |-> 0]]

\* opts.validationRatio || 1.0: undefined and 0 are both falsy.
validationRatio(o) ==
    IF o.validationRatio.given /\ o.validationRatio.value # 0
    THEN o.validationRatio.value
    ELSE DefaultRatio

\* The fields of the instance after the constructor has run.
Constructor(o) ==
    [explicitRelayUrls |-> o.explicitRelayUrls,
     blacklist |-> o.blacklistRelayUrls,
     outboxPool |-> o.enableOutboxModel,
     relayAuthDefaultPolicy |-> o.relayAuthDefaultPolicy,
     signer |-> o.signer,
     autoConnectUserRelays |-> o.autoConnectUserRelays,
     autoFetchUserMutelist |-> o.autoFetchUserMutelist,
     validationRatio |-> validationRatio(o)]

\* ------------------------------------------------------ relay-set resolution
\* An optional relay set: NDKRelaySet | undefined.
NoRelaySet == [defined |-> FALSE, relays |-> {}]

SomeRelaySet(S) == [defined |-> TRUE, relays |-> S]

\* The first argument of fetchEvent: a filter object, a bech32 identifier
\* (nevent / naddr) with its embedded relay hints, a NIP-33 a-value
\* ("kind:pubkey:d", which carries no hint), or a value that yields no filter.
IdOrFilters ==
    {[type |-> ty, hints |-> {}, authors |-> a] :
        ty \in {"filter", "nip33", "invalid"}, a \in BOOLEAN}
    \cup {[type |-> "bech32", hints |-> H, authors |-> FALSE] : H \in SUBSET Relays}

\* The third argument of fetchEvent: undefined, an NDKRelay or an NDKRelaySet.
RelayArgs ==
    {[kind |-> "none", relays |-> {}]}
    \cup {[kind |-> "relay", relays |-> {r}] : r \in Relays}
    \cup {[kind |-> "set", relays |-> S] : S \in SUBSET Relays}

IsString(idOrFilter) == idOrFilter.type \in {"bech32", "nip33"}

\* isNip33AValue, relaysFromBech32 (subscription/utils.js).
isNip33AValue(idOrFilter) == idOrFilter.type = "nip33"

relaysFromBech32(idOrFilter) == idOrFilter.hints

\* The relays the pool knows and may use (4.1: blacklisted ones are excluded).
PoolRelays(n) == n.explicitRelayUrls \ n.blacklist

\* correctRelaySet (4.2 (2)): the hinted relays are kept, relays of the pool
\* are added when none of the hinted ones belongs to it, and blacklisted
\* relays never stay in a resolved set.
correctRelaySet(S, n) ==
    (IF S \cap PoolRelays(n) = {} THEN S \cup PoolRelays(n) ELSE S) \ n.blacklist

\* Hints consulted although an explicit relay or relay set was given.
FetchEventRelaySet_HintsToo(idOrFilter, relaySetOrRelay, n) ==
    IF relaySetOrRelay.kind # "none"
    THEN SomeRelaySet(relaySetOrRelay.relays \cup relaysFromBech32(idOrFilter))
    ELSE IF IsString(idOrFilter) /\ ~isNip33AValue(idOrFilter)
              /\ relaysFromBech32(idOrFilter) # {}
         THEN SomeRelaySet(correctRelaySet(relaysFromBech32(idOrFilter), n))
         ELSE NoRelaySet

\* fetchEvent: the relay set handed to subscribe.
FetchEventRelaySet(idOrFilter, relaySetOrRelay, n) ==
    IF relaySetOrRelay.kind = "relay" THEN SomeRelaySet(relaySetOrRelay.relays)
    ELSE IF relaySetOrRelay.kind = "set" THEN SomeRelaySet(relaySetOrRelay.relays)
    ELSE IF IsString(idOrFilter) /\ ~isNip33AValue(idOrFilter)
              /\ relaysFromBech32(idOrFilter) # {}
         THEN SomeRelaySet(correctRelaySet(relaysFromBech32(idOrFilter), n))
         ELSE NoRelaySet

\* The relay set of a subscription (4.2): the explicit set wins outright,
\* otherwise the pool's configured relays; a resolved set holds no blacklisted
\* relay (6).
SubscriptionRelaySet(passed, n) ==
    IF passed.defined THEN passed.relays \ n.blacklist ELSE PoolRelays(n)

\* Resolution failure (7 b): the relay set resolves to empty, which is raised
\* synchronously by the constructor of the subscription.
ResolutionFails(passed, n) == SubscriptionRelaySet(passed, n) = {}

\* subscribe: the relays signalled to the pool with useTemporaryRelay.
TemporaryRelays(relaySet) == IF relaySet.defined THEN relaySet.relays ELSE {}

\* subscribe: whether the authors are handed to outboxTracker.trackUsers.
TracksAuthors(n, hasAuthorsFilter) == n.outboxPool /\ hasAuthorsFilter

\* The exception swallowed and the promise resolved with an empty result.
reject_ResolveEmpty(p) ==
    IF p.state = "pending" THEN [state |-> "resolved", value |-> NoResult] ELSE p

\* An exception thrown inside the promise executor, or by the async function
\* itself, rejects the promise.
reject(p) == IF p.state = "pending" THEN [state |-> "rejected", value |-> NoResult] ELSE p

\* -------------------------------------------------------------- step order
\* The steps of subscribe(), fetchEvent() and fetchEvents() in program order.
SubscribeSteps(autoStart) ==
    <<"new NDKSubscription", "subManager.add">>
    \o (IF autoStart THEN <<"setTimeout(start)">> ELSE << >>)

\* fetchEvent starting the subscription before attaching its handlers.
FetchEventSteps_StartFirst ==
    <<"new NDKSubscription", "subManager.add", "start",
      "setInterval", "setTimeout", "on(event)", "on(eose)">>

FetchEventSteps ==
    SubscribeSteps(FALSE)
    \o <<"setInterval", "setTimeout", "on(event)", "on(eose)", "start">>

FetchEventsSteps ==
    SubscribeSteps(FALSE)
    \o <<"on(event)", "on(event:dup)", "on(eose)", "start">>

NoCall == [id |-> [type |-> "filter", hints |-> {}, authors |-> FALSE],
           arg |-> [kind |-> "none", relays |-> {}],
           passed |-> NoRelaySet, autoStart |-> FALSE, error |-> "none"]

\* ------------------------------------------------------------------ actions
\* The state after `new NDK(o)`.
Pools == {"main", "outbox"}

NoAssert == [calls |-> 0, signer |-> "none", threw |-> FALSE, emitted |-> 0]

NoConnect ==
    [state |-> "idle", calledAt |-> 0, timeoutMs |-> 0, poolsAt |-> 0,
     pending |-> {}, resolvedAt |-> 0]

\* The values pool.connectedRelays.length can have: connectedRelays is a
\* method (fetchEvent calls it), so its length is its number of declared
\* parameters, none or one optional one.
FunctionLengths == {0, 1}

\* The mints of the cashu wallet, in the order Object.entries(mintBalances)
\* lists them, and the absent mint.
NumMints == 2

Mints == 1..NumMints

NoMint == 0

\* No payLn call made yet.
NoPay ==
    [state |-> "idle", pr |-> FALSE, amount |-> 0, useMint |-> NoMint,
     balances |-> [m \in Mints |-> 0], eligible |-> << >>, next |-> 0, errors |-> {}, emitted |-> 0,
     settled |-> 0, promise |-> [state |-> "none", value |-> "none"]]

\* The engine built from o, where pool.connectedRelays.length is len.  The
\* constructor assigns this.signer, whose setter starts the lookup of the
\* signer's user.
Constructed(o, len) ==
    /\ authLog = << >>
    /\ asserted = NoAssert
    /\ now = 0
    /\ conn = NoConnect
    /\ activeUser = NoUser
    /\ mutedIds = o.mutedIds
    /\ connected = [p \in Pools |-> {}]
    /\ onceConnect = [p \in Pools |-> << >>]
    /\ userRuns = << >>
    /\ connectedRelaysLength = len
    /\ tasks = {}
    /\ lookups = IF o.signer = "none" THEN << >> ELSE <<Author>>
    /\ signerUser = IF o.signer = "none" THEN NoUser ELSE Author
    /\ effects = {}
    /\ proofs = [m \in Mints |-> {}]
    /\ pay = NoPay
    /\ attempts = << >>
    /\ op = "none"
    /\ sub = NoSubscription
    /\ subManager = {}
    /\ fetchedEvent = None
    /\ t = "unset"
    /\ t2 = "unset"
    /\ promise = NoPromise
    /\ events = EmptyMap
    /\ arrived = {}
    /\ delivered = {}
    /\ dups = {}
    /\ firstNonRepl = None
    /\ nDeliveries = 0
    /\ opts = o
    /\ ndk = Constructor(o)
    /\ poolTemp = {}
    /\ trackCalls = 0
    /\ deferred = "unset"
    /\ call = NoCall
    /\ log = << >>

Init == Constructed(DefaultOpts, 0)

\* Engines that differ in their relays, their blacklist and the outbox model.
EngineOpts ==
    {o \in Opts : /\ ~o.relayAuthDefaultPolicy
                  /\ o.signer = "none"
                  /\ o.autoConnectUserRelays
                  /\ o.autoFetchUserMutelist
                  /\ o.mutedIds = {}
                  /\ ~o.validationRatio.given}

EngineInit == \E o \in EngineOpts : Constructed(o, 0)

\* subscribe(filters, opts, relaySet, autoStart): the subscription is built
\* and registered, the relays of an explicit set are signalled to the pool,
\* and the authors are tracked when the outbox pool exists.
SubscribeCall(relaySet, hasAuthorsFilter, closeOnEose, startNow) ==
    LET s == subscribe(SubscriptionRelaySet(relaySet, ndk), closeOnEose) IN
    /\ sub' = IF startNow THEN start(s) ELSE s
    /\ subManager' = subManager \cup {SubId}
    /\ poolTemp' = poolTemp \cup TemporaryRelays(relaySet)
    /\ trackCalls' = IF TracksAuthors(ndk, hasAuthorsFilter)
                     THEN trackCalls + 1 ELSE trackCalls

\* The call failed before any subscription was registered.
NothingSubscribed == UNCHANGED <<sub, subManager, poolTemp, trackCalls>>

\* ndk.fetchEvent(idOrFilter, opts, relaySetOrRelay): the relay set is
\* resolved and the filter checked; then the promise executor runs to its end
\* synchronously: subscribe, both timers, both handlers, s.start().
FetchEvent(idOrFilter, relaySetOrRelay) ==
    LET relaySet == FetchEventRelaySet(idOrFilter, relaySetOrRelay, ndk)
        error == IF idOrFilter.type = "invalid" THEN "Invalid filter"
                 ELSE IF ResolutionFails(relaySet, ndk) THEN "resolution"
                 ELSE "none"
    IN
    /\ op = "none"
    /\ op' = "fetchEvent"
    /\ fetchedEvent' = None
    /\ call' = [id |-> idOrFilter, arg |-> relaySetOrRelay, passed |-> relaySet,
                autoStart |-> FALSE, error |-> error]
    /\ IF error = "none"
       THEN /\ SubscribeCall(relaySet, idOrFilter.authors, TRUE, TRUE)
            /\ t' = "set"
            /\ t2' = "set"
            /\ promise' = PendingPromise
            /\ log' = FetchEventSteps
       ELSE /\ NothingSubscribed
            /\ promise' = reject(PendingPromise)
            /\ log' = IF error = "resolution" THEN <<"new NDKSubscription">> ELSE << >>
            /\ UNCHANGED <<t, t2>>
    /\ UNCHANGED <<events, history, opts, ndk, deferred, sessionVars>>

\* ndk.fetchEvents(filters, opts, relaySet)
FetchEvents(filters, relaySet) ==
    LET error == IF ResolutionFails(relaySet, ndk) THEN "resolution" ELSE "none" IN
    /\ op = "none"
    /\ op' = "fetchEvents"
    /\ events' = EmptyMap
    /\ call' = [id |-> filters,
                arg |-> [kind |-> IF relaySet.defined THEN "set" ELSE "none",
                         relays |-> relaySet.relays],
                passed |-> relaySet, autoStart |-> FALSE, error |-> error]
    /\ IF error = "none"
       THEN /\ SubscribeCall(relaySet, filters.authors, TRUE, TRUE)
            /\ promise' = PendingPromise
            /\ log' = FetchEventsSteps
       ELSE /\ NothingSubscribed
            /\ promise' = reject(PendingPromise)
            /\ log' = <<"new NDKSubscription">>
    /\ UNCHANGED <<fetchedEvent, t, t2, history, opts, ndk, deferred, sessionVars>>

\* ndk.subscribe(filters, opts, relaySet, autoStart) called directly.
Subscribe(filters, relaySet, autoStart) ==
    LET error == IF ResolutionFails(relaySet, ndk) THEN "resolution" ELSE "none" IN
    /\ op = "none"
    /\ op' = "subscribe"
    /\ call' = [id |-> filters,
                arg |-> [kind |-> IF relaySet.defined THEN "set" ELSE "none",
                         relays |-> relaySet.relays],
                passed |-> relaySet, autoStart |-> autoStart, error |-> error]
    /\ IF error = "none"
       THEN /\ SubscribeCall(relaySet, filters.authors, FALSE, FALSE)
            /\ deferred' = IF autoStart THEN "set" ELSE deferred
            /\ log' = SubscribeSteps(autoStart)
       ELSE /\ NothingSubscribed
            /\ log' = <<"new NDKSubscription">>
            /\ UNCHANGED deferred
    /\ UNCHANGED <<fetchedEvent, t, t2, promise, events, history, opts, ndk, sessionVars>>

\* The timer set by subscribe fires: subscription.start().
DeferredStart ==
    /\ deferred = "set"
    /\ deferred' = "fired"
    /\ sub' = start(sub)
    /\ log' = Append(log, "start")
    /\ UNCHANGED <<op, subManager, fetchedEvent, t, t2, promise, events, history,
                   opts, ndk, poolTemp, trackCalls, call, sessionVars>>

\* The closure of fetchEvent takes its new values.
SetClosure(c) ==
    /\ sub' = c.s
    /\ subManager' = Registry(subManager, c.s)
    /\ fetchedEvent' = c.fetchedEvent
    /\ t' = c.t
    /\ t2' = c.t2
    /\ promise' = c.promise

\* An event never arrives under one identity with two contents.
Consistent(e) == \A a \in arrived : a.id = e.id => a = e

\* Relay r delivers event e to the subscription, which emits it through
\* "event" or "event:dup"; the handlers of the running operation react.
RelayEvent(r, e) ==
    /\ op # "none"
    /\ Listening(sub)
    /\ r \in sub.relaySet
    /\ nDeliveries < MaxDeliveries
    /\ Consistent(e)
    /\ LET sig == Classify(sub, e)
           s1 == eventReceived(sub, e)
       IN  /\ arrived' = arrived \cup {e}
           /\ nDeliveries' = nDeliveries + 1
           /\ delivered' = IF sig = "event" THEN delivered \cup {e} ELSE delivered
           /\ dups' = IF sig = "event:dup" THEN dups \cup {e} ELSE dups
           /\ firstNonRepl' = IF sig = "event" /\ ~isReplaceable(e) /\ firstNonRepl = None
                               THEN e ELSE firstNonRepl
           /\ IF op = "fetchEvent"
              THEN /\ SetClosure(IF sig = "event"
                                 THEN FetchEventOnEvent([Closure EXCEPT !.s = s1], e)
                                 ELSE [Closure EXCEPT !.s = s1])
                   /\ UNCHANGED events
              ELSE /\ \E d \in (IF MapHas(events, deduplicationKey(e))
                                THEN dedupEvent(events[deduplicationKey(e)], e)
                                ELSE {e}) :
                        events' = IF op = "fetchEvents"
                                  THEN onEvent(events, e, d) ELSE events
                   /\ sub' = s1
                   /\ UNCHANGED <<subManager, fetchedEvent, t, t2, promise>>
    /\ UNCHANGED <<op, engineVars, sessionVars>>

\* Relay r signals end-of-stored-events; the last one of the set makes the
\* subscription emit the merged "eose" and, under closeOnEose, stop.
RelayEose(r) ==
    /\ op # "none"
    /\ Listening(sub)
    /\ r \in sub.relaySet
    /\ LET s1 == MarkEose(sub, r)
           s2 == AfterMergedEose(s1)
       IN  IF MergedEoseFires(sub, r)
           THEN IF op = "fetchEvent"
                THEN /\ SetClosure(FetchEventOnEose([Closure EXCEPT !.s = s2]))
                     /\ UNCHANGED events
                ELSE /\ promise' = IF op = "fetchEvents"
                                     THEN FetchEventsOnEose(promise, events)
                                     ELSE promise
                     /\ sub' = s2
                     /\ subManager' = Registry(subManager, s2)
                     /\ UNCHANGED <<fetchedEvent, t, t2, events>>
           ELSE /\ sub' = s1
                /\ UNCHANGED <<subManager, fetchedEvent, t, t2, promise, events>>
    /\ UNCHANGED <<op, history, engineVars, sessionVars>>

\* The 10 s timeout of fetchEvent fires.
Timeout ==
    /\ t2 = "set"
    /\ SetClosure(FetchEventOnTimeout([Closure EXCEPT !.t2 = "fired"]))
    /\ UNCHANGED <<op, events, history, engineVars, sessionVars>>

\* The 1.5 s progress interval of fetchEvent fires: it only logs.
IntervalTick ==
    /\ t = "set"
    /\ UNCHANGED vars

RelaySets == (SUBSET Relays) \ {{}}

\* A filter object, with or without an authors constraint.
Filters == {[type |-> "filter", hints |-> {}, authors |-> a] : a \in BOOLEAN}

\* The filter of the fetches whose relay traffic is followed: one author.
AuthorFilter == [type |-> "filter", hints |-> {}, authors |-> TRUE]

OptRelaySets == {NoRelaySet} \cup {SomeRelaySet(S) : S \in SUBSET Relays}

\* Fetches with an explicit relay set on a default engine, and the traffic of
\* their relays.
Next ==
    \/ \E rs \in RelaySets : FetchEvent(AuthorFilter, [kind |-> "set", relays |-> rs])
    \/ \E rs \in RelaySets : FetchEvents(AuthorFilter, SomeRelaySet(rs))
    \/ \E r \in Relays, e \in Event : RelayEvent(r, e)
    \/ \E r \in Relays : RelayEose(r)
    \/ Timeout
    \/ IntervalTick

Spec == Init /\ [][Next]_vars

\* Every way of building the engine and of calling subscribe, fetchEvent and
\* fetchEvents on it, with relays that hold no matching event.
EngineNext ==
    \/ \E id \in IdOrFilters, a \in RelayArgs : FetchEvent(id, a)
    \/ \E f \in Filters, rs \in OptRelaySets : FetchEvents(f, rs)
    \/ \E f \in Filters, rs \in OptRelaySets, autoStart \in BOOLEAN :
            Subscribe(f, rs, autoStart)
    \/ DeferredStart
    \/ \E r \in Relays : RelayEose(r)
    \/ Timeout
    \/ IntervalTick

EngineSpec == EngineInit /\ [][EngineNext]_vars

\* Timers that are set and not cleared fire: the event loop runs them.  No
\* fairness is assumed of the relays, which may stay silent for ever.
LiveSpec == Spec /\ WF_vars(Timeout)

\* ------------------------------------------- auth challenges, assertSigner
MaxCalls == 2

\* The number of times the default policy is invoked for one challenge raised
\* by a relay of the pool: the constructor listens to "relay:auth" on the main
\* pool, and the listener reads this.relayAuthDefaultPolicy when it runs.
OnRelayAuth(n, pool) ==
    IF pool = "main" /\ n.relayAuthDefaultPolicy THEN 1 ELSE 0

\* A relay of the pool asks for authentication; the pool emits "relay:auth".
RelayAuth(pool, r) ==
    /\ Len(authLog) < MaxCalls
    /\ (pool = "outbox") => ndk.outboxPool
    /\ authLog' = Append(authLog, [pool |-> pool, relay |-> r,
                                    policy |-> ndk.relayAuthDefaultPolicy,
                                    invoked |-> OnRelayAuth(ndk, pool)])
    /\ UNCHANGED <<fetchVars, history, payVars, engineVars, asserted, connectVars, userVars>>

\* ndk.relayAuthDefaultPolicy = policy (or undefined)
SetRelayAuthDefaultPolicy(b) ==
    /\ ndk.relayAuthDefaultPolicy # b
    /\ ndk' = [ndk EXCEPT !.relayAuthDefaultPolicy = b]
    /\ UNCHANGED <<fetchVars, history, payVars, opts, poolTemp, trackCalls, deferred, call,
                   log, sessionVars>>

\* assertSigner throwing and emitting whether or not there is a signer.
assertSigner_Always(n) == [threw |-> TRUE, emitted |-> 1]

\* assertSigner: whether it throws "Signer required" and how many
\* "signer:required" it emits.
assertSigner(n) ==
    IF n.signer = "none"
    THEN [threw |-> TRUE, emitted |-> 1]
    ELSE [threw |-> FALSE, emitted |-> 0]

\* ndk.assertSigner()
AssertSigner ==
    /\ asserted.calls < MaxCalls
    /\ asserted' = [calls |-> asserted.calls + 1,
                    signer |-> ndk.signer,
                    threw |-> assertSigner(ndk).threw,
                    emitted |-> assertSigner(ndk).emitted]
    /\ UNCHANGED <<fetchVars, history, payVars, engineVars, authLog, connectVars, userVars>>

\* Engines that differ in their policy, signer, outbox model and ratio.
ConfigOpts ==
    {o \in Opts : /\ o.explicitRelayUrls = {}
                  /\ o.blacklistRelayUrls = {}
                  /\ o.autoConnectUserRelays
                  /\ o.autoFetchUserMutelist
                  /\ o.mutedIds = {}}

ConfigInit == \E o \in ConfigOpts : Constructed(o, 0)

ConfigNext ==
    \/ \E pool \in Pools, r \in Relays : RelayAuth(pool, r)
    \/ \E b \in BOOLEAN : SetRelayAuthDefaultPolicy(b)
    \/ AssertSigner

ConfigSpec == ConfigInit /\ [][ConfigNext]_vars

\* ------------------------------------------------------------ ndk.connect
MaxClock == 3

MaxTimeout == 2

\* connect awaits signer.relays() before it connects any pool.
AwaitsSignerRelays(n) == n.signer = "relays" /\ n.autoConnectUserRelays

\* The pools connect() connects, all at once and with the same timeout.
ConnectPools(n) == IF n.outboxPool THEN Pools ELSE {"main"}

\* const connections = [this.pool.connect(timeoutMs), ...]
StartPools(c, n, at) ==
    [c EXCEPT !.state = "pools", !.poolsAt = at, !.pending = ConnectPools(n)]

\* ndk.connect(timeoutMs)
Connect(timeoutMs) ==
    /\ conn.state = "idle"
    /\ conn' = LET c == [NoConnect EXCEPT !.calledAt = now, !.timeoutMs = timeoutMs]
               IN  IF AwaitsSignerRelays(ndk)
                   THEN [c EXCEPT !.state = "lookup"]
                   ELSE StartPools(c, ndk, now)
    /\ UNCHANGED <<fetchVars, history, payVars, engineVars, configVars, now, userVars>>

\* signer.relays() resolves with rs: the relays are added to the pool and the
\* pools are connected.
SignerRelaysReturn(rs) ==
    /\ conn.state = "lookup"
    /\ ndk' = [ndk EXCEPT !.explicitRelayUrls = @ \cup rs]
    /\ conn' = StartPools(conn, ndk, now)
    /\ UNCHANGED <<fetchVars, history, payVars, opts, poolTemp, trackCalls, deferred, call,
                   log, configVars, now, userVars>>

\* Promise.allSettled(connections): connect resolves with the last of them.
PoolConnectResolved(c, pool, at) ==
    LET pending == c.pending \ {pool} IN
    IF pending = {}
    THEN [c EXCEPT !.pending = pending, !.state = "resolved", !.resolvedAt = at]
    ELSE [c EXCEPT !.pending = pending]

\* Every connection attempt of the pool has settled.
PoolConnectSettles(pool) ==
    /\ conn.state = "pools"
    /\ pool \in conn.pending
    /\ conn' = PoolConnectResolved(conn, pool, now)
    /\ UNCHANGED <<fetchVars, history, payVars, engineVars, configVars, now, userVars>>

\* The timeout of pool.connect(timeoutMs) elapses.
PoolConnectTimeout(pool) ==
    /\ conn.state = "pools"
    /\ pool \in conn.pending
    /\ now = conn.poolsAt + conn.timeoutMs
    /\ conn' = PoolConnectResolved(conn, pool, now)
    /\ UNCHANGED <<fetchVars, history, payVars, engineVars, configVars, now, userVars>>

\* Time passes, but not past a timer that is due.
Tick ==
    /\ now < MaxClock
    /\ ~(conn.state = "pools" /\ now = conn.poolsAt + conn.timeoutMs)
    /\ now' = now + 1
    /\ UNCHANGED <<fetchVars, history, payVars, engineVars, configVars, conn, userVars>>

\* Engines that differ in their signer, autoConnectUserRelays and outbox model.
ConnectOpts ==
    {o \in Opts : /\ o.explicitRelayUrls = {}
                  /\ o.blacklistRelayUrls = {}
                  /\ ~o.relayAuthDefaultPolicy
                  /\ o.autoFetchUserMutelist
                  /\ o.mutedIds = {}
                  /\ ~o.validationRatio.given}

ConnectInit == \E o \in ConnectOpts : Constructed(o, 0)

ConnectNext ==
    \/ \E timeoutMs \in 1..MaxTimeout : Connect(timeoutMs)
    \/ \E rs \in SUBSET Relays : SignerRelaysReturn(rs)
    \/ \E pool \in Pools : PoolConnectSettles(pool)
    \/ \E pool \in Pools : PoolConnectTimeout(pool)
    \/ Tick

ConnectSpec == ConnectInit /\ [][ConnectNext]_vars

\* ------------------------------------------------------- activeUser setter
\* const pool = this.outboxPool || this.pool
UserPool(n) == IF n.outboxPool THEN "outbox" ELSE "main"

\* userFunctions, in the order they are pushed.
UserFunctions(n) ==
    <<"fetchBlockedRelays">>
        \o (IF n.autoConnectUserRelays THEN <<"connectToUserRelays">> ELSE << >>)
        \o (IF n.autoFetchUserMutelist THEN <<"fetchUserMuteList">> ELSE << >>)

\* runUserFunctions(user): every user function is started, in order.
runUserFunctions(runs, n, user, via) ==
    Append(runs, [user |-> user, fns |-> UserFunctions(n), via |-> via])

\* pool.connectedRelays.length > 0
RunsNow(len, relays) == len > 0

\* The user functions of run i, each awaiting its fetch.
TasksOf(runs, i) ==
    {[run |-> i, user |-> runs[i].user, fn |-> runs[i].fns[k]] :
        k \in DOMAIN runs[i].fns}

\* The tasks of the runs that new has and old has not.
NewTasks(old, new) ==
    UNION {TasksOf(new, i) : i \in (Len(old) + 1)..Len(new)}

\* The calls of the model that can still start a run of the user functions.
PendingRuns ==
    Len(userRuns) + Len(onceConnect["main"]) + Len(onceConnect["outbox"])
        + Len(lookups)

\* The body of the activeUser setter.
activeUserSetter(user) ==
    LET differentUser == activeUser # user
        pool == UserPool(ndk)
    IN
    /\ activeUser' = user
    /\ IF user # NoUser /\ differentUser
       THEN /\ IF RunsNow(connectedRelaysLength, connected[pool])
               THEN /\ userRuns' = runUserFunctions(userRuns, ndk, user, "set")
                    /\ UNCHANGED onceConnect
               ELSE /\ onceConnect' =
                            [onceConnect EXCEPT ![pool] = Append(@, user)]
                    /\ UNCHANGED userRuns
            /\ UNCHANGED mutedIds
       ELSE /\ mutedIds' = IF user = NoUser THEN {} ELSE mutedIds
            /\ UNCHANGED <<onceConnect, userRuns>>
    /\ tasks' = tasks \cup NewTasks(userRuns, userRuns')

\* ndk.activeUser = user
SetActiveUser(user) ==
    /\ PendingRuns < MaxCalls
    /\ activeUserSetter(user)
    /\ UNCHANGED <<fetchVars, history, payVars, engineVars, configVars, connectVars,
                   connected, connectedRelaysLength, lookups, signerUser,
                   effects>>

RECURSIVE RunListeners(_, _, _)
\* The once("connect") listeners run in the order they were set.
RunListeners(runs, n, listeners) ==
    IF listeners = << >> THEN runs
    ELSE RunListeners(runUserFunctions(runs, n, Head(listeners), "connect"),
                      n, Tail(listeners))

\* A relay of the pool connects; the pool may emit "connect" for it.
RelayConnects(pool, r, emitsConnect) ==
    /\ (pool = "outbox") => ndk.outboxPool
    /\ r \notin connected[pool]
    /\ connected' = [connected EXCEPT ![pool] = @ \cup {r}]
    /\ IF emitsConnect
       THEN /\ userRuns' = RunListeners(userRuns, ndk, onceConnect[pool])
            /\ onceConnect' = [onceConnect EXCEPT ![pool] = << >>]
       ELSE UNCHANGED <<userRuns, onceConnect>>
    /\ tasks' = tasks \cup NewTasks(userRuns, userRuns')
    /\ UNCHANGED <<fetchVars, history, payVars, engineVars, configVars, connectVars,
                   activeUser, mutedIds, connectedRelaysLength, lookups,
                   signerUser, effects>>

\* A relay of the pool drops its connection.
RelayDisconnects(pool, r) ==
    /\ r \in connected[pool]
    /\ connected' = [connected EXCEPT ![pool] = @ \ {r}]
    /\ UNCHANGED <<fetchVars, history, payVars, engineVars, configVars, connectVars,
                   activeUser, mutedIds, onceConnect, userRuns,
                   connectedRelaysLength, tasks, lookups, signerUser, effects>>

\* Engines that differ in their outbox model, user options and muted ids.
UserOpts ==
    {o \in Opts : /\ o.explicitRelayUrls = {}
                  /\ o.blacklistRelayUrls = {}
                  /\ ~o.relayAuthDefaultPolicy
                  /\ o.signer = "none"
                  /\ ~o.validationRatio.given}

UserInit == \E o \in UserOpts, len \in FunctionLengths : Constructed(o, len)

UserNext ==
    \/ \E user \in Users \cup {NoUser} : SetActiveUser(user)
    \/ \E pool \in Pools, r \in Relays, emitsConnect \in BOOLEAN :
            RelayConnects(pool, r, emitsConnect)
    \/ \E pool \in Pools, r \in Relays : RelayDisconnects(pool, r)

UserSpec == UserInit /\ [][UserNext]_vars

\* ------------------------------------------- user functions, signer setter
\* What the relays hold for a user: the relay list names every relay, the
\* blocked-relay list the relay numbered as the user, the mute list every
\* other user.
RelayListOf(user) == Relays

BlockedRelaysOf(user) == {r \in Relays : r = user}

MuteListOf(user) == Users \ {user}

\* What a user function did when its fetch returned: the items it merged,
\* the relays the pool connects for it, and the active user at that time.
Effect(task, items, connecting) ==
    [fn |-> task.fn, user |-> task.user, active |-> activeUser,
     items |-> items, connecting |-> connecting]

\* fetchBlockedRelays: its fetchEvent resolves, with the list or with null.
BlockedRelaysFetched(task, found) ==
    /\ task \in tasks
    /\ task.fn = "fetchBlockedRelays"
    /\ tasks' = tasks \ {task}
    /\ IF found
       THEN /\ ndk' = [ndk EXCEPT !.blacklist = @ \cup BlockedRelaysOf(task.user)]
            /\ effects' = effects
                    \cup {Effect(task, BlockedRelaysOf(task.user), {})}
       ELSE UNCHANGED <<ndk, effects>>
    /\ UNCHANGED <<fetchVars, history, payVars, opts, poolTemp, trackCalls, deferred, call,
                   log, configVars, connectVars, activeUser, mutedIds, connected,
                   onceConnect, userRuns, connectedRelaysLength, lookups,
                   signerUser>>

\* pool.addRelay(relay) connects the relay unless its URL is blacklisted.
AutoConnected(n, relays) == relays \ n.blacklist

\* connectToUserRelays: NDKRelayList.forUser resolves, with the list or with
\* none; every relay of the list the pool does not know is added to it.
RelayListFetched(task, found) ==
    /\ task \in tasks
    /\ task.fn = "connectToUserRelays"
    /\ tasks' = tasks \ {task}
    /\ IF found
       THEN LET added == RelayListOf(task.user) \ ndk.explicitRelayUrls IN
            /\ ndk' = [ndk EXCEPT !.explicitRelayUrls = @ \cup added]
            /\ effects' = effects
                    \cup {Effect(task, added, AutoConnected(ndk, added))}
       ELSE UNCHANGED <<ndk, effects>>
    /\ UNCHANGED <<fetchVars, history, payVars, opts, poolTemp, trackCalls, deferred, call,
                   log, configVars, connectVars, activeUser, mutedIds, connected,
                   onceConnect, userRuns, connectedRelaysLength, lookups,
                   signerUser>>

\* fetchUserMuteList: its fetchEvent resolves, with the list or with null.
MuteListFetched(task, found) ==
    /\ task \in tasks
    /\ task.fn = "fetchUserMuteList"
    /\ tasks' = tasks \ {task}
    /\ IF found
       THEN /\ mutedIds' = mutedIds \cup MuteListOf(task.user)
            /\ effects' = effects \cup {Effect(task, MuteListOf(task.user), {})}
       ELSE UNCHANGED <<mutedIds, effects>>
    /\ UNCHANGED <<fetchVars, history, payVars, engineVars, configVars, connectVars,
                   activeUser, connected, onceConnect, userRuns,
                   connectedRelaysLength, lookups, signerUser>>

\* ndk.signer = newSigner, a signer of the given kind whose user() is user;
\* kind "none" is ndk.signer = undefined.
SetSigner(kind, user) ==
    /\ (kind = "none") <=> (user = NoUser)
    /\ IF kind = "none" THEN ndk.signer # "none" ELSE PendingRuns < MaxCalls
    /\ ndk' = [ndk EXCEPT !.signer = kind]
    /\ signerUser' = user
    /\ lookups' = IF kind = "none" THEN lookups ELSE Append(lookups, user)
    /\ UNCHANGED <<fetchVars, history, payVars, opts, poolTemp, trackCalls, deferred, call,
                   log, configVars, connectVars, activeUser, mutedIds, connected,
                   onceConnect, userRuns, connectedRelaysLength, tasks, effects>>

\* A sequence without its i-th element.
Remove(sq, i) == SubSeq(sq, 1, i - 1) \o SubSeq(sq, i + 1, Len(sq))

\* A signer.user() lookup resolves, in any order: this.activeUser = user.
LookupReturns(i) ==
    /\ i \in DOMAIN lookups
    /\ activeUserSetter(lookups[i])
    /\ lookups' = Remove(lookups, i)
    /\ UNCHANGED <<fetchVars, history, payVars, engineVars, configVars, connectVars,
                   connected, connectedRelaysLength, signerUser, effects>>

\* Engines that differ in their user options.
IdentityOpts == {o \in UserOpts : o.mutedIds = {} /\ ~o.enableOutboxModel}

IdentityInit ==
    \E o \in IdentityOpts, len \in FunctionLengths : Constructed(o, len)

IdentityNext ==
    \/ \E user \in Users \cup {NoUser} : SetActiveUser(user)
    \/ \E kind \in Signers, user \in Users \cup {NoUser} : SetSigner(kind, user)
    \/ \E i \in 1..MaxCalls : LookupReturns(i)
    \/ \E r \in Relays, emitsConnect \in BOOLEAN :
            RelayConnects("main", r, emitsConnect)
    \/ \E r \in Relays : RelayDisconnects("main", r)
    \/ \E task \in tasks, found \in BOOLEAN : BlockedRelaysFetched(task, found)
    \/ \E task \in tasks, found \in BOOLEAN : RelayListFetched(task, found)
    \/ \E task \in tasks, found \in BOOLEAN : MuteListFetched(task, found)

IdentitySpec == IdentityInit /\ [][IdentityNext]_vars

\* Signer assignments only: the active user is set by the lookups alone.
SignerNext ==
    \/ \E kind \in Signers, user \in Users \cup {NoUser} : SetSigner(kind, user)
    \/ \E i \in 1..MaxCalls : LookupReturns(i)
    \/ \E r \in Relays, emitsConnect \in BOOLEAN :
            RelayConnects("main", r, emitsConnect)
    \/ \E r \in Relays : RelayDisconnects("main", r)

SignerSpec == IdentityInit /\ [][SignerNext]_vars

\* ------------------------------------------------------------------ payLn
MaxAmount == 3

\* The proofs a mint can hold, each named by its amount in sats.
Proofs == {1, 2}

RECURSIVE Sum(_)
\* proofs.reduce((acc, proof) => acc + proof.amount, 0)
Sum(S) == IF S = {} THEN 0 ELSE LET x == CHOOSE y \in S : TRUE IN x + Sum(S \ {x})

\* wallet.mintBalances
mintBalances(w) == [m \in Mints |-> Sum(w[m])]

RECURSIVE Filter(_, _, _, _)
\* The mints from m on that pass the filter of getEligibleMints, in order.
Filter(balances, amount, useMint, m) ==
    IF m > NumMints THEN << >>
    ELSE (IF (useMint # NoMint /\ m # useMint) \/ balances[m] < amount
          THEN << >> ELSE <<m>>)
         \o Filter(balances, amount, useMint, m + 1)

\* getEligibleMints(mintBalances, amount, useMint, debug)
getEligibleMints(balances, amount, useMint) ==
    Filter(balances, amount, useMint, 1)

\* A promise settles once: later resolve and reject calls change nothing.
Settle(p, state, value) ==
    IF p.state = "pending" THEN [state |-> state, value |-> value] ELSE p

\* payLn(payment, useMint) on a payment info with or without an invoice.
PayLn(amount, pr, useMint) ==
    LET eligibleMints == getEligibleMints(mintBalances(proofs), amount, useMint)
        call0 == [NoPay EXCEPT !.pr = pr, !.amount = amount, !.useMint = useMint,
                               !.balances = mintBalances(proofs),
                               !.promise = [state |-> "pending", value |-> "none"]]
    IN
    /\ pay.state = "idle"
    /\ pay' = IF ~pr
              THEN [call0 EXCEPT !.state = "done", !.settled = 1,
                        !.promise = Settle(@, "rejected", "missing pr")]
              ELSE IF eligibleMints = << >>
              THEN [call0 EXCEPT !.state = "done", !.emitted = 1, !.settled = 1,
                        !.promise = Settle(@, "rejected",
                                        "no mint with sufficient balance found")]
              ELSE [call0 EXCEPT !.state = "running",
                        !.eligible = eligibleMints, !.next = 1]
    /\ UNCHANGED <<fetchVars, history, engineVars, configVars, connectVars,
                   userVars, proofs, attempts>>

\* _wallet.selectProofsToSend(mintProofs, amountToSend): some smallest set of
\* proofs worth at least the amount, none when there is no such set.
selectProofsToSend(mintProofs, amountToSend) ==
    LET enough == {S \in SUBSET mintProofs : Sum(S) >= amountToSend}
    IN  IF enough = {} THEN {{}}
        ELSE {S \in enough : \A T \in enough : ~(T \subseteq S /\ T # S)}

\* What a mint answers to meltProofs.
MeltStates == {"PAID", "PENDING", "UNPAID"}

Preimages == {"", "preimage"}

\* The ways one executePayment call can go: the wallet of the mint loads or
\* not, createMeltQuote and meltProofs return or throw, and the melt returns
\* a quote state, a preimage and change.
\* A field is left at its first value where the call never gets to it.
Outcomes ==
    {o \in [loaded : BOOLEAN, quoted : BOOLEAN, feeReserve : 0..1,
            melted : BOOLEAN, state : MeltStates, preimage : Preimages,
            selection : SUBSET Proofs, change : SUBSET Proofs] :
        /\ ~o.loaded => ~o.quoted
        /\ ~o.quoted => ~o.melted /\ o.feeReserve = 0
        /\ ~o.melted => o.state = "UNPAID" /\ o.preimage = ""
        /\ ~(o.state = "PAID" /\ o.preimage # "") => o.change = {}}

\* The record of an executePayment call that did not reach meltProofs.
NoMelt(mint, result) ==
    [mint |-> mint, result |-> result, asked |-> FALSE, selected |-> {},
     sent |-> {}, state |-> "none", rolled |-> FALSE, used |-> {},
     published |-> FALSE]

\* The proofs handed to meltProofs and to rollOverProofs as used.
MeltedProofs(mintProofs, selected) == mintProofs

\* The quote counts as paid only with a preimage.
Rolls(state, preimage) == state = "PAID" /\ preimage # ""

\* executePayment(mint, ...): what it returns ("" stands for null, undefined
\* and the empty preimage, "throw" for a thrown error) and what it did.
executePayment(mint, amount, w, o) ==
    LET mintProofs == w[mint]
        selected == o.selection
        sent == MeltedProofs(mintProofs, selected)
    IN  IF ~o.loaded THEN NoMelt(mint, "throw")
        ELSE IF Sum(mintProofs) < amount THEN NoMelt(mint, "")
        ELSE IF ~o.quoted THEN NoMelt(mint, "throw")
        ELSE IF ~o.melted
        THEN [NoMelt(mint, "throw") EXCEPT !.asked = TRUE,
                                           !.selected = selected, !.sent = sent]
        ELSE [mint |-> mint, result |-> o.preimage, asked |-> TRUE,
              selected |-> selected, sent |-> sent, state |-> o.state,
              rolled |-> Rolls(o.state, o.preimage),
              used |-> IF Rolls(o.state, o.preimage) THEN sent ELSE {},
              published |-> Rolls(o.state, o.preimage)]

\* The loop going on to the next mint although this one returned a preimage.
Continues_Always(result) == TRUE

\* attemptPaymentWithEligibleMints: if (result) { resolve(result); return }
Continues(result) == result \in {"", "throw"}

\* One turn of the loop of attemptPaymentWithEligibleMints, and the reject
\* that follows the last turn.
AttemptPayment(o) ==
    LET mint == pay.eligible[pay.next]
        a == executePayment(mint, pay.amount, proofs, o)
        last == pay.next = Len(pay.eligible)
        errors == IF a.result = "throw" THEN pay.errors \cup {mint} ELSE pay.errors
    IN
    /\ pay.state = "running"
    /\ o.selection \in selectProofsToSend(proofs[mint], pay.amount + o.feeReserve)
    /\ o.melted => Sum(o.change) + pay.amount <= Sum(proofs[mint])
    /\ attempts' = Append(attempts, a)
    /\ proofs' = IF a.rolled
                 THEN [proofs EXCEPT ![mint] = (@ \ a.used) \cup o.change]
                 ELSE proofs
    /\ pay' = IF ~Continues(a.result)
              THEN [pay EXCEPT !.state = "done", !.settled = @ + 1,
                        !.promise = Settle(@, "resolved", a.result)]
              ELSE IF last
              THEN [pay EXCEPT !.state = "done", !.errors = errors,
                        !.settled = @ + 1,
                        !.promise = Settle(@, "rejected",
                                           "Failed to pay with any mint")]
              ELSE [pay EXCEPT !.next = @ + 1, !.errors = errors]
    /\ UNCHANGED <<fetchVars, history, engineVars, configVars, connectVars,
                   userVars>>

\* The wallet receives or spends proofs outside of payLn: anything before the
\* call, and during it a spend elsewhere of all the proofs of a mint.
ProofsChange(mint, ps) ==
    /\ pay.state \in {"idle", "running"}
    /\ pay.state = "running" => ps = {}
    /\ proofs[mint] # ps
    /\ proofs' = [proofs EXCEPT ![mint] = ps]
    /\ UNCHANGED <<fetchVars, history, engineVars, configVars, connectVars,
                   userVars, pay, attempts>>

PayNext ==
    \/ \E amount \in 1..MaxAmount, pr \in BOOLEAN, useMint \in Mints \cup {NoMint} :
            PayLn(amount, pr, useMint)
    \/ \E o \in Outcomes : AttemptPayment(o)
    \/ \E mint \in Mints, ps \in SUBSET Proofs : ProofsChange(mint, ps)

PaySpec == Init /\ [][PayNext]_vars

\* ------------------------------------------------------------------- claims
Resolved == promise.state = "resolved"

\* The events of D with the greatest creation timestamp.
Newest(D) == {b \in D : \A e \in D : e.created_at <= b.created_at}

\* The best candidate among D as fetchEvent computes it: null for no event,
\* else one of the newest events of D.
IsNewestOrNull(v, D) == IF D = {} THEN v = None ELSE v \in Newest(D)

\* The event of D with the greatest creation timestamp, ties broken by the
\* greatest identity.
Best(D) ==
    CHOOSE b \in D : \A e \in D :
        \/ e.created_at < b.created_at
        \/ (e.created_at = b.created_at /\ e.id <= b.id)

AllReplaceable(D) == \A e \in D : isReplaceable(e)

Keys(D) == {deduplicationKey(e) : e \in D}

\* C1: in fetchEvent, as soon as a non-replaceable event has been emitted
\* through "event", the promise is resolved with the first such event, whether
\* or not the merged EOSE or the timeout has happened and whatever replaceable
\* candidate is held.
C1_FirstNonReplaceableResolves ==
    (op = "fetchEvent" /\ firstNonRepl # None)
        => (Resolved /\ promise.value = EventResult(firstNonRepl))

\* C1 witness: resolved with the first non-replaceable event while a newer
\* replaceable candidate is held, a relay has not sent EOSE, and the timeout
\* has not fired.
C1_Witness ==
    /\ op = "fetchEvent"
    /\ firstNonRepl # None
    /\ promise.value = EventResult(firstNonRepl)
    /\ fetchedEvent # None
    /\ fetchedEvent.created_at > firstNonRepl.created_at
    /\ ~sub.eoseEmitted
    /\ t2 # "fired"

\* C2: once fetchEvent has resolved on the first non-replaceable event, its
\* subscription is stopped in every later state.
C2_StoppedAfterFirstEvent ==
    (op = "fetchEvent" /\ firstNonRepl # None) => sub.state = "stopped"

\* C3: when every event emitted through "event" to fetchEvent is replaceable,
\* the promise is resolved only once the merged EOSE was emitted or the
\* timeout fired, and its value is then an emitted event with the greatest
\* created_at, or null when none was emitted.
C3_ReplaceableWaitsForEnd ==
    (op = "fetchEvent" /\ AllReplaceable(delivered) /\ Resolved)
        => /\ sub.eoseEmitted \/ t2 = "fired"
           /\ IsNewestOrNull(promise.value.ev, delivered)

\* C3 witness: resolved at the merged EOSE with the newest of two replaceable
\* events of different dedup keys, both emitted through "event".
C3_Witness ==
    /\ op = "fetchEvent"
    /\ Resolved
    /\ sub.eoseEmitted
    /\ AllReplaceable(delivered)
    /\ Cardinality(delivered) >= 2
    /\ promise.value.ev \in delivered
    /\ \E e \in delivered :
          /\ e.created_at < promise.value.ev.created_at
          /\ sub.ledger[deduplicationKey(e)] = e
          /\ deduplicationKey(e) # deduplicationKey(promise.value.ev)

\* C4: when the events that reached a fetchEvent subscription are replaceable
\* and share one dedup key, the value returned is the one with the greatest
\* created_at, ties broken by the greatest id, whatever the arrival order.
C4_NewestWinsAnyOrder ==
    (/\ op = "fetchEvent"
     /\ Resolved
     /\ arrived # {}
     /\ AllReplaceable(arrived)
     /\ Cardinality(Keys(arrived)) = 1)
        => promise.value.ev = Best(arrived)

\* C5: a fetchEvent call whose subscription emits no event eventually
\* resolves to null; it is never rejected.
C5_NoEventResolvesNull ==
    (op = "fetchEvent")
        ~> (\/ (Resolved /\ promise.value = EventResult(None))
            \/ delivered # {})

\* C5 witness: resolved to null by the timeout although no relay ever sent
\* EOSE or an event.
C5_Witness ==
    /\ op = "fetchEvent"
    /\ Resolved
    /\ promise.value = EventResult(None)
    /\ t2 = "fired"
    /\ sub.eosed = {}
    /\ arrived = {}

\* C6: once the fetchEvent timeout has fired, the subscription is stopped and
\* released, the polling interval is cleared, and the promise is resolved with
\* the best replaceable candidate emitted so far, or null when there is none.
C6_TimeoutCleansUp ==
    (t2 = "fired")
        => /\ sub.state = "stopped"
           /\ SubId \notin subManager
           /\ t = "cleared"
           /\ Resolved
           /\ promise.value = EventResult(fetchedEvent)
           /\ IsNewestOrNull(fetchedEvent, {e \in delivered : isReplaceable(e)})

\* C6 witness: the timeout fired while a replaceable candidate was held and a
\* relay had not sent EOSE.
C6_Witness ==
    /\ t2 = "fired"
    /\ fetchedEvent # None
    /\ promise.value = EventResult(fetchedEvent)
    /\ sub.eosed # sub.relaySet

\* C7: once the promise is resolved, no later step changes it.
C7_ResolvedOnce == [][Resolved => promise' = promise]_vars

\* C7 witness: fetchEvent resolved with a non-replaceable event, and the merged
\* EOSE came later while a different candidate was held, so that the "eose"
\* handler called resolve() again with another value.
C7_Witness ==
    /\ op = "fetchEvent"
    /\ Resolved
    /\ firstNonRepl # None
    /\ sub.eoseEmitted
    /\ fetchedEvent # promise.value.ev

\* C8: the set fetchEvents resolves with holds exactly one event for each
\* dedup key among the events emitted through "event" or "event:dup": its
\* size is the number of distinct keys.
C8_OnePerDedupKey ==
    (op = "fetchEvents" /\ Resolved)
        => LET R == promise.value.evs
               D == delivered \cup dups
           IN  /\ R \subseteq D
               /\ Keys(R) = Keys(D)
               /\ Cardinality(R) = Cardinality(Keys(D))

\* C8 witness: resolved with two events after three deliveries, one of them
\* emitted through "event:dup".
C8_Witness ==
    /\ op = "fetchEvents"
    /\ Resolved
    /\ Cardinality(promise.value.evs) >= 2
    /\ nDeliveries > Cardinality(promise.value.evs)
    /\ dups # {}

\* C9: in fetchEvents an entry is only ever replaced by a copy of the same
\* dedup key that is not older, and the entry returned for each key is a
\* newest copy among those emitted for that key.
C9_NewestCopyKept ==
    /\ [][\A k \in DOMAIN events :
             /\ k \in DOMAIN events'
             /\ deduplicationKey(events'[k]) = k
             /\ events'[k].created_at >= events[k].created_at]_vars
    /\ []((op = "fetchEvents" /\ Resolved)
            => \A e \in promise.value.evs :
                 e \in Newest({d \in delivered \cup dups :
                                  deduplicationKey(d) = deduplicationKey(e)}))

\* C9 witness: resolved with the newer copy of a replaceable event although
\* the older copy arrived after it (through "event:dup").
C9_Witness ==
    /\ op = "fetchEvents"
    /\ Resolved
    /\ \E e \in promise.value.evs, d \in dups :
          /\ deduplicationKey(d) = deduplicationKey(e)
          /\ d.created_at < e.created_at

\* C10: a fetchEvents call eventually resolves, even when a relay of its set
\* never signals end-of-stored-events (the relays are under no fairness, the
\* timers are).
C10_FetchEventsResolves == (op = "fetchEvents") ~> Resolved

\* ------------------------------------------------- claims on the engine API
IsFetch == op \in {"fetchEvent", "fetchEvents"}

Count(sq, x) == Cardinality({i \in DOMAIN sq : sq[i] = x})

\* The position of the first x in sq, 0 when there is none.
IndexOf(sq, x) ==
    IF \E i \in DOMAIN sq : sq[i] = x
    THEN CHOOSE i \in DOMAIN sq : sq[i] = x /\ \A j \in 1..(i - 1) : sq[j] # x
    ELSE 0

Before(sq, x, y) == IndexOf(sq, x) > 0 /\ IndexOf(sq, x) < IndexOf(sq, y)

\* C11: no blacklisted relay is in the relay set of a subscription created by
\* subscribe, fetchEvent or fetchEvents, and none is handed to
\* pool.useTemporaryRelay.
C11_NoBlacklistedRelay ==
    (sub.relaySet \cup poolTemp) \cap ndk.blacklist = {}

\* C12: fetchEvent hands subscribe the explicit relay or relay set as given,
\* whatever hints the identifier carries; with no explicit argument and a
\* bech32 identifier carrying hints, the set built from the hints and corrected
\* against the pool; and no relay set in every other case, the subscription
\* then resolving its own.
C12_ResolutionPriority ==
    (op = "fetchEvent")
        => LET explicit == call.arg.kind # "none"
               hinted == call.id.type = "bech32" /\ call.id.hints # {}
           IN  /\ explicit => call.passed = SomeRelaySet(call.arg.relays)
               /\ (~explicit /\ hinted)
                    => /\ call.passed.defined
                       /\ call.passed.relays = correctRelaySet(call.id.hints, ndk)
               /\ (~explicit /\ ~hinted) => call.passed = NoRelaySet
               /\ call.error = "none"
                    => /\ poolTemp = call.passed.relays
                       /\ sub.relaySet = IF call.passed.defined
                                          THEN call.passed.relays \ ndk.blacklist
                                          ELSE PoolRelays(ndk)

\* C12 witness: an explicit relay was given together with an identifier whose
\* hints name another relay, and the subscription uses the explicit relay only.
C12_Witness ==
    /\ op = "fetchEvent"
    /\ call.arg.kind = "relay"
    /\ call.id.type = "bech32"
    /\ call.id.hints # {}
    /\ call.id.hints \cap call.arg.relays = {}
    /\ sub.state = "running"
    /\ sub.relaySet = call.arg.relays

C14_TrackOnlyWithoutRelaySet ==
    (trackCalls > 0) => (call.id.authors /\ ~call.passed.defined)

\* C19: a subscription is registered before it is started and is started at
\* most once; subscribe with autoStart leaves it pending and schedules the one
\* start; fetchEvent and fetchEvents attach "event" and "eose" before their
\* one start().
C19_StartOrdered ==
    /\ Count(log, "start") <= 1
    /\ (sub.state # "pending") <=> (Count(log, "start") = 1)
    /\ (Count(log, "start") = 1) => Before(log, "subManager.add", "start")
    /\ (IsFetch /\ call.error = "none")
         => /\ Count(log, "start") = 1
            /\ Before(log, "on(event)", "start")
            /\ Before(log, "on(eose)", "start")
    /\ (op = "subscribe" /\ call.error = "none")
         => IF call.autoStart
            THEN /\ deferred \in {"set", "fired"}
                 /\ (deferred = "set") => (sub.state = "pending" /\ SubId \in subManager)
                 /\ (deferred = "fired") <=> (Count(log, "start") = 1)
            ELSE deferred = "unset" /\ sub.state = "pending"

\* C19 witness: subscribe with autoStart has returned, the subscription is
\* registered and still pending, and its start is scheduled.
C19_Witness ==
    /\ op = "subscribe"
    /\ call.autoStart
    /\ deferred = "set"
    /\ sub.state = "pending"
    /\ SubId \in subManager
    /\ log = <<"new NDKSubscription", "subManager.add", "setTimeout(start)">>

\* C15: every challenge, of the main pool or of the outbox pool, invokes the
\* default policy configured when it is raised exactly once, and invokes
\* nothing when none is configured.
C15_EveryChallengeForwarded ==
    \A i \in DOMAIN authLog :
        authLog[i].invoked = IF authLog[i].policy THEN 1 ELSE 0

\* C16: connect(timeoutMs) is resolved once timeoutMs has passed since the
\* call, and was resolved no later than that.
C16_ConnectWithinTimeout ==
    /\ (conn.state \in {"lookup", "pools"})
            => (now <= conn.calledAt + conn.timeoutMs)
    /\ (conn.state = "resolved")
            => (conn.resolvedAt <= conn.calledAt + conn.timeoutMs)

\* C17: a call of assertSigner throws and emits "signer:required" once exactly
\* when the engine has no signer at the call, neither throws nor emits when it
\* has one, and changes nothing of the engine.
C17_AssertSigner ==
    [][(asserted'.calls = asserted.calls + 1)
            => /\ asserted'.threw <=> (ndk.signer = "none")
               /\ asserted'.emitted = IF ndk.signer = "none" THEN 1 ELSE 0
               /\ UNCHANGED <<ndk, opts, fetchVars, authLog, connectVars, userVars>>
      ]_vars

\* C17 witness: assertSigner was called on an engine with a signer and on one
\* call returned without throwing or emitting.
C17_Witness ==
    /\ asserted.calls = MaxCalls
    /\ asserted.signer # "none"
    /\ ~asserted.threw
    /\ asserted.emitted = 0

\* C18: the engine holds the configured validation ratio whenever one is
\* configured, 0.0 included, and 1.0 only when none is.
C18_RatioAsConfigured ==
    ndk.validationRatio = IF opts.validationRatio.given
                          THEN opts.validationRatio.value
                          ELSE DefaultRatio

\* C20: setting activeUser to a user with another pubkey runs the user
\* functions at once if the pool (the outbox pool if there is one) has a
\* connected relay, and otherwise sets one listener for that pool's next
\* "connect", which runs them once; any other step starts no run but those of
\* the listeners it removes.
C20_UserFunctionsRun ==
    [][LET pool == UserPool(ndk)
           fns == {"fetchBlockedRelays"}
                    \cup (IF ndk.autoConnectUserRelays
                          THEN {"connectToUserRelays"} ELSE {})
                    \cup (IF ndk.autoFetchUserMutelist
                          THEN {"fetchUserMuteList"} ELSE {})
           Pending(oc) == Len(oc["main"]) + Len(oc["outbox"])
       IN  IF activeUser' # activeUser /\ activeUser' # NoUser
           THEN IF connected[pool] # {}
                THEN /\ Len(userRuns') = Len(userRuns) + 1
                     /\ userRuns'[Len(userRuns')].user = activeUser'
                     /\ {userRuns'[Len(userRuns')].fns[k] :
                            k \in DOMAIN userRuns'[Len(userRuns')].fns} = fns
                     /\ onceConnect' = onceConnect
                ELSE /\ userRuns' = userRuns
                     /\ onceConnect' =
                            [onceConnect EXCEPT ![pool] = Append(@, activeUser')]
           ELSE /\ Len(userRuns') + Pending(onceConnect')
                        = Len(userRuns) + Pending(onceConnect)
                /\ \A i \in DOMAIN userRuns : userRuns'[i] = userRuns[i]
      ]_vars

\* C21: a user function takes effect (relays added to the pool, blocked
\* relays merged into the blacklist, mute list merged into mutedIds) only for
\* the user who is active when it does.
C21_EffectsOnlyForActiveUser ==
    \A e \in effects : e.user = e.active

\* C22: clearing activeUser empties mutedIds and it stays empty while there is
\* no active user; switching from one user to another leaves no entry of the
\* former user's mute list.
C22_MutedIdsOfActiveUser ==
    [][/\ (activeUser' = NoUser)
            => IF activeUser # NoUser
               THEN mutedIds' = {}
               ELSE mutedIds' \subseteq mutedIds
       /\ (activeUser # NoUser /\ activeUser' \notin {NoUser, activeUser})
            => (mutedIds' \cap MuteListOf(activeUser) = {})
      ]_vars

\* C23: after signer assignments, once no signer.user() lookup is pending,
\* the active user is the user of the signer configured, and no user when no
\* signer is configured.
C23_ActiveUserOfCurrentSigner ==
    (lookups = << >>) => (activeUser = signerUser)

\* C24: the user-relay connection step of the active user never has the pool
\* connect a relay of that user's blocked-relay list.
C24_BlockedRelayNeverConnected ==
    \A e \in effects :
        (e.fn = "connectToUserRelays" /\ e.user = e.active)
            => (e.connecting \cap BlockedRelaysOf(e.user) = {})

\* ------------------------------------------------------- claims on payLn
Eligible(m) ==
    /\ pay.balances[m] >= pay.amount
    /\ pay.useMint = NoMint \/ m = pay.useMint

Attempted(n) == {attempts[i].mint : i \in 1..n}

Threw == {attempts[i].mint : i \in {k \in DOMAIN attempts : attempts[k].result = "throw"}}

\* The eligible mints are tried in order and one at a time, the first
\* preimage resolves and ends the attempts, the rejection for failure comes
\* after all of them, and the promise settles once.
PayLnTriesInOrder ==
    /\ pay.settled <= 1
    /\ (pay.settled = 1) <=> (pay.promise.state \in {"resolved", "rejected"})
    /\ (pay.settled = 1) <=> (pay.state = "done")
    /\ \A i \in DOMAIN attempts :
            /\ Attempted(i) = {m \in Mints : Eligible(m) /\ m <= attempts[i].mint}
            /\ (i < Len(attempts)) => (attempts[i].result \in {"", "throw"})
    /\ (attempts # << >> /\ attempts[Len(attempts)].result \notin {"", "throw"})
            => /\ pay.promise.state = "resolved"
               /\ pay.promise.value = attempts[Len(attempts)].result
    /\ (pay.promise.state = "resolved")
            => /\ attempts # << >>
               /\ pay.promise.value = attempts[Len(attempts)].result
               /\ pay.promise.value \notin {"", "throw"}
    /\ (pay.promise = [state |-> "rejected", value |-> "Failed to pay with any mint"])
            => /\ Attempted(Len(attempts)) = {m \in Mints : Eligible(m)}
               /\ attempts # << >>
               /\ pay.errors = Threw
    /\ (\E m \in Mints : Eligible(m)) => (pay.emitted = 0)

\* With no eligible mint: "insufficient_balance" once, rejection, no attempt.
PayLnInsufficientBalance ==
    /\ pay.emitted = 1
    /\ pay.promise = [state |-> "rejected",
                      value |-> "no mint with sufficient balance found"]
    /\ attempts = << >>

\* C25, as claimed: eligible mints are tried in order up to the first
\* preimage, failure is rejected after all of them with the errors thrown
\* recorded, and whenever no mint is eligible "insufficient_balance" is
\* emitted and the call rejected without an attempt; the promise settles once.
C25_PayLnAsClaimed ==
    (pay.state # "idle")
        => /\ PayLnTriesInOrder
           /\ (~ \E m \in Mints : Eligible(m)) => PayLnInsufficientBalance

\* C25, amended: the same for a payment info that carries an invoice; without
\* an invoice the call is rejected with "missing pr" before any mint is looked
\* at, and nothing is emitted.
C25_PayLnWithInvoice ==
    (pay.state # "idle")
        => /\ PayLnTriesInOrder
           /\ (pay.pr /\ ~ \E m \in Mints : Eligible(m)) => PayLnInsufficientBalance
           /\ ~pay.pr => /\ pay.promise = [state |-> "rejected", value |-> "missing pr"]
                         /\ pay.emitted = 0
                         /\ attempts = << >>

\* C25 witness: the first eligible mint threw, the second returned a preimage
\* and payLn resolved with it.
C25_Witness ==
    /\ pay.pr
    /\ Len(attempts) = 2
    /\ attempts[1].result = "throw"
    /\ pay.errors = {attempts[1].mint}
    /\ pay.promise = [state |-> "resolved", value |-> "preimage"]

\* C26: after a melt that returned a quote in state PAID no later mint is
\* asked to melt, and a call resolved with a preimage has rolled over the
\* proofs spent and published the history event.
C26_PaidAtMostOnce ==
    /\ \A i, j \in DOMAIN attempts :
            (i < j /\ attempts[i].state = "PAID") => ~attempts[j].asked
    /\ (pay.promise.state = "resolved")
            => /\ attempts[Len(attempts)].rolled
               /\ attempts[Len(attempts)].published

\* C27: the proofs handed to the melt are those selectProofsToSend chose, and
\* only those are marked as used in the rollover.
C27_MeltsSelectedProofs ==
    \A i \in DOMAIN attempts :
        attempts[i].asked
            => /\ attempts[i].sent = attempts[i].selected
               /\ attempts[i].rolled => (attempts[i].used = attempts[i].selected)

=============================================================================
